---------------------------- MODULE Spec2Model ----------------------------
(***************************************************************************)
(* Model of ctftimebot: the XML feed decoder (parse_ctftime_feed), the     *)
(* visibility filter (CtfEvent::should_print_event), the message           *)
(* synthesizer (format_duration, CtfEvent::to_slack) and the run of main.  *)
(*                                                                         *)
(* Conventions.  An Option<T> is a sequence of length at most one: <<>> is *)
(* None and <<v>> is Some(v).  Instants and durations are whole seconds.   *)
(* A formatted string is the tuple of the pieces the format! call joins.   *)
(***************************************************************************)
EXTENDS Integers, Sequences, FiniteSets, TLC

VARIABLES
    pc,          \* position of the running operation
    cfg,         \* CONFIG: [days_into_future, always_show_ctfs, colors, bot_icon]
    now,         \* UTC::now() as read by should_print_event
    ev,          \* the event handed to should_print_event
    verdict,     \* Option<bool>: what should_print_event returned
    dur,         \* the Duration handed to format_duration
    rendered,    \* the components format_duration pushed, in order
    events,      \* main: the decoded events
    attachments, \* main: the filtered and mapped events
    sent,        \* main: the payloads POSTed to the webhook, in order
    stack,       \* reader: the open elements of the document, outermost first
    tok,         \* reader: the token parser.next() returned last
    quirks,      \* reader: irregularities of the document produced so far
    feed,        \* reader: the items of the document closed so far
    in_item,     \* parse_ctftime_feed: in_item
    builder,     \* parse_ctftime_feed: builder (CtfEventBuilder)
    data,        \* parse_ctftime_feed: data (Option<String>)
    result,      \* parse_ctftime_feed: result (Vec<CtfEvent>)
    msg,         \* the Message handed to PostUpdate::from
    update       \* Option<PostUpdate>: what PostUpdate::from returned

vars == <<pc, cfg, now, ev, verdict, dur, rendered, events, attachments, sent,
          stack, tok, quirks, feed, in_item, builder, data, result,
          msg, update>>

fvars == <<ev, verdict>>
dvars == <<dur, rendered>>
mvars == <<events, attachments, sent>>
rvars == <<stack, tok, quirks, feed>>
pvars == <<in_item, builder, data, result>>
uvars == <<msg, update>>

None == <<>>
Some(v) == <<v>>
IsSome(o) == Len(o) > 0
Unwrap(o) == o[1]

-----------------------------------------------------------------------------
(* chrono::Duration arithmetic: num_* divide and truncate toward zero.     *)

SecsPerMinute == 60
MinsPerHour == 60
HoursPerDay == 24
SecsPerHour == MinsPerHour * SecsPerMinute
SecsPerDay == HoursPerDay * SecsPerHour

TruncDiv(a, b) == IF a >= 0 THEN a \div b ELSE -((-a) \div b)

NumSeconds(d) == d
NumMinutes(d) == TruncDiv(d, SecsPerMinute)
NumHours(d) == TruncDiv(d, SecsPerHour)
NumDays_floor(d) == d \div SecsPerDay
NumDays(d) == TruncDiv(d, SecsPerDay)

-----------------------------------------------------------------------------
(* Enumerations of lib.rs.                                                 *)

Restrictions == {"Open", "Prequalified", "Academic", "Invited", "HighSchool"}
Formats == {"Jeopardy", "AttackDefense", "HackQuest", "Unknown"}

BASE_URL == "https://ctftime.org"

\* CtfFormat::to_string
FormatToString(f) ==
    CASE f = "Jeopardy" -> "Jeopardy"
      [] f = "AttackDefense" -> "Attack-Defense"
      [] f = "HackQuest" -> "Hack-Quest"
      [] f = "Unknown" -> "Unknown"

\* CtfTeam::to_string: "[{name}]({BASE_URL}/team/{id})"
TeamToString(t) == <<"[", t.name, "](", BASE_URL, "/team/", t.id, ")">>

-----------------------------------------------------------------------------
(* Bounds of the inputs.                                                   *)

MaxLookahead == 2      \* largest days_into_future tried
MaxCtfId == 2          \* series identifiers 1..MaxCtfId
MaxHours == 50         \* longest duration tried, in whole hours
MaxEvents == 2         \* longest event list main decodes
MaxItems == 2          \* most items in a feed document
MaxQuirks == 1         \* most irregularities in a feed document

CtfIds == 1..MaxCtfId
Lookaheads == (-1)..MaxLookahead

Configs ==
    [days_into_future : Lookaheads,
     always_show_ctfs : SUBSET CtfIds,
     color_jeopardy : {"#0099e1"},
     color_attack_defense : {"#da5422"},
     bot_icon : {None}]

\* Instants around the lookahead boundary: whole days before and after now,
\* each alone and with a partial day added.
PartialDays == {0, 1, SecsPerDay - 1}
StartDates ==
    {d * SecsPerDay + p : d \in (-2)..(MaxLookahead + 1), p \in PartialDays}
Nows == {0, SecsPerDay \div 2}

\* An event as the filter and the synthesizer read it.
Event(id, r, o, s, f) ==
    [title |-> "T", link |-> "L", guid |-> "L",
     start_date |-> s, finish_date |-> s + SecsPerDay,
     logo_url |-> None, url |-> None, format |-> f,
     public_votable |-> TRUE, weight |-> 0, live_feed |-> None,
     restrictions |-> r, location |-> None, onsite |-> o,
     organizers |-> <<>>, ctf_id |-> id, ctf_name |-> "N"]

FilterEvents ==
    {Event(id, r, o, s, "Jeopardy") :
        id \in CtfIds, r \in Restrictions, o \in BOOLEAN, s \in StartDates}

-----------------------------------------------------------------------------
(* CtfEvent::should_print_event (lib.rs 172-182).                          *)

should_print_event_noshow(e, c, t) ==
    IF e.restrictions # "Open" /\ e.restrictions # "Academic"
    THEN FALSE
    ELSE LET days_into_future == NumDays(e.start_date - t)
         IN  ~e.onsite /\ days_into_future <= c.days_into_future

should_print_event_open(e, c, t) ==
    IF e.ctf_id \in c.always_show_ctfs
    THEN TRUE
    ELSE LET days_into_future == NumDays(e.start_date - t)
         IN  ~e.onsite /\ days_into_future <= c.days_into_future

should_print_event_onsite(e, c, t) ==
    IF e.ctf_id \in c.always_show_ctfs
    THEN TRUE
    ELSE IF e.restrictions # "Open" /\ e.restrictions # "Academic"
    THEN FALSE
    ELSE LET days_into_future == NumDays(e.start_date - t)
         IN  days_into_future <= c.days_into_future

should_print_event_floor(e, c, t) ==
    IF e.ctf_id \in c.always_show_ctfs
    THEN TRUE
    ELSE IF e.restrictions # "Open" /\ e.restrictions # "Academic"
    THEN FALSE
    ELSE LET days_into_future == NumDays_floor(e.start_date - t)
         IN  ~e.onsite /\ days_into_future <= c.days_into_future

should_print_event(e, c, t) ==
    IF e.ctf_id \in c.always_show_ctfs
    THEN TRUE
    ELSE IF e.restrictions # "Open" /\ e.restrictions # "Academic"
    THEN FALSE
    ELSE LET days_into_future == NumDays(e.start_date - t)
         IN  ~e.onsite /\ days_into_future <= c.days_into_future

-----------------------------------------------------------------------------
(* format_duration (lib.rs 96-115): the pushed components, in order.       *)

format_duration_ge48(d0) ==
    LET tmp0 == <<>>
        p1 == NumHours(d0) >= 48
        tmp1 == IF p1 THEN Append(tmp0, <<NumDays(d0), "days">>) ELSE tmp0
        d1 == IF p1 THEN d0 + SecsPerDay * (-NumDays(d0)) ELSE d0
        p2 == NumHours(d1) > 0
        tmp2 == IF p2 THEN Append(tmp1, <<NumHours(d1), "hours">>) ELSE tmp1
        d2 == IF p2 THEN d1 + SecsPerHour * (-NumHours(d1)) ELSE d1
        p3 == NumMinutes(d2) > 0
        tmp3 == IF p3 THEN Append(tmp2, <<NumMinutes(d2), "minutes">>) ELSE tmp2
        d3 == IF p3 THEN d2 + SecsPerMinute * (-NumMinutes(d2)) ELSE d2
        p4 == NumSeconds(d3) > 0
    IN  IF p4 THEN Append(tmp3, <<NumSeconds(d3), "seconds">>) ELSE tmp3

format_duration_keep_days(d0) ==
    LET tmp0 == <<>>
        p1 == NumHours(d0) > 48
        tmp1 == IF p1 THEN Append(tmp0, <<NumDays(d0), "days">>) ELSE tmp0
        d1 == d0
        p2 == NumHours(d1) > 0
        tmp2 == IF p2 THEN Append(tmp1, <<NumHours(d1), "hours">>) ELSE tmp1
        d2 == IF p2 THEN d1 + SecsPerHour * (-NumHours(d1)) ELSE d1
        p3 == NumMinutes(d2) > 0
        tmp3 == IF p3 THEN Append(tmp2, <<NumMinutes(d2), "minutes">>) ELSE tmp2
        d3 == IF p3 THEN d2 + SecsPerMinute * (-NumMinutes(d2)) ELSE d2
        p4 == NumSeconds(d3) > 0
    IN  IF p4 THEN Append(tmp3, <<NumSeconds(d3), "seconds">>) ELSE tmp3

format_duration(d0) ==
    LET tmp0 == <<>>
        p1 == NumHours(d0) > 48
        tmp1 == IF p1 THEN Append(tmp0, <<NumDays(d0), "days">>) ELSE tmp0
        d1 == IF p1 THEN d0 + SecsPerDay * (-NumDays(d0)) ELSE d0
        p2 == NumHours(d1) > 0
        tmp2 == IF p2 THEN Append(tmp1, <<NumHours(d1), "hours">>) ELSE tmp1
        d2 == IF p2 THEN d1 + SecsPerHour * (-NumHours(d1)) ELSE d1
        p3 == NumMinutes(d2) > 0
        tmp3 == IF p3 THEN Append(tmp2, <<NumMinutes(d2), "minutes">>) ELSE tmp2
        d3 == IF p3 THEN d2 + SecsPerMinute * (-NumMinutes(d2)) ELSE d2
        p4 == NumSeconds(d3) > 0
    IN  IF p4 THEN Append(tmp3, <<NumSeconds(d3), "seconds">>) ELSE tmp3

\* Durations around the 48-hour threshold, with and without minutes and
\* seconds, and the same durations negated (finish_date before start_date).
Durations ==
    LET pos == {h * SecsPerHour + m * SecsPerMinute + s :
                   h \in 0..MaxHours, m \in {0, 1, 59}, s \in {0, 1, 59}}
    IN  pos \cup {-d : d \in pos}

-----------------------------------------------------------------------------
(* CtfEvent::to_slack (lib.rs 118-167).                                    *)

\* The color handed to AttachmentBuilder::color (lib.rs 156-160).
attachment_color_jeopardy_only(e, c) ==
    IF e.format = "Jeopardy"
    THEN c.color_jeopardy
    ELSE c.color_attack_defense

attachment_color(e, c) ==
    IF e.format = "AttackDefense"
    THEN c.color_attack_defense
    ELSE c.color_jeopardy

to_slack(e, c) ==
    LET duration == format_duration(e.finish_date - e.start_date)
        title == <<e.title, " - ", FormatToString(e.format)>>  \* the separator is an em dash in the source
        organizers == [i \in 1..Len(e.organizers) |-> TeamToString(e.organizers[i])]
        url == IF IsSome(e.url) THEN Unwrap(e.url) ELSE e.link
        text == [date |-> e.start_date,
                 duration |-> duration,
                 organizers |-> organizers,
                 url |-> url,
                 location |-> IF e.onsite THEN e.location ELSE None,
                 prequalified |-> (e.restrictions = "Prequalified")]
        fallback == [title |-> title, date |-> e.start_date,
                     duration |-> duration, url |-> url]
    IN  [fallback |-> fallback,
         title |-> title,
         text |-> text,
         color |-> attachment_color(e, c),
         thumb_url |-> e.logo_url]

-----------------------------------------------------------------------------
(* Values of the variables an operation does not use.                      *)

IdleFilter == ev = None /\ verdict = None
IdleDuration == dur = 0 /\ rendered = <<>>
IdleMain == events = <<>> /\ attachments = <<>> /\ sent = <<>>
NoToken == [kind |-> "none", arg |-> ""]
IdleReader == stack = <<>> /\ tok = NoToken /\ quirks = 0 /\ feed = <<>>
IdleParser == in_item = FALSE /\ builder = None /\ data = None /\ result = <<>>
IdleConfig == cfg = None /\ now = 0
IdleUpdate == msg = None /\ update = None

-----------------------------------------------------------------------------
(* The filter applied to one event: SpecFilter.                            *)

InitFilter ==
    /\ pc = "filter_call"
    /\ cfg \in Configs
    /\ now \in Nows
    /\ ev \in {Some(e) : e \in FilterEvents}
    /\ verdict = None
    /\ IdleDuration /\ IdleMain /\ IdleReader /\ IdleParser
    /\ IdleUpdate

ShouldPrintEvent ==
    /\ pc = "filter_call"
    /\ verdict' = Some(should_print_event(Unwrap(ev), cfg, now))
    /\ pc' = "filter_done"
    /\ UNCHANGED <<uvars, cfg, now, ev, dvars, mvars, rvars, pvars>>

NextFilter == ShouldPrintEvent

SpecFilter == InitFilter /\ [][NextFilter]_vars

-----------------------------------------------------------------------------
(* format_duration applied to one duration: SpecDuration.                  *)

InitDuration ==
    /\ pc = "duration_call"
    /\ dur \in Durations
    /\ rendered = <<>>
    /\ IdleConfig /\ IdleFilter /\ IdleMain /\ IdleReader /\ IdleParser
    /\ IdleUpdate

FormatDuration ==
    /\ pc = "duration_call"
    /\ rendered' = format_duration(dur)
    /\ pc' = "duration_done"
    /\ UNCHANGED <<uvars, cfg, now, dur, fvars, mvars, rvars, pvars>>

NextDuration == FormatDuration

SpecDuration == InitDuration /\ [][NextDuration]_vars

-----------------------------------------------------------------------------
(* One run of main (main.rs 6-51): SpecMain.                               *)

MainConfigs ==
    [days_into_future : {MaxLookahead},
     always_show_ctfs : {{}, {1}},
     color_jeopardy : {"#0099e1"},
     color_attack_defense : {"#da5422"},
     bot_icon : {None, Some("icon")}]

FarStart == (MaxLookahead + 1) * SecsPerDay

MainEvents ==
    {Event(id, r, o, s, f) :
        id \in CtfIds, r \in {"Open", "Invited"}, o \in BOOLEAN,
        s \in {0, FarStart}, f \in {"Jeopardy"}}

EventLists == UNION {[1..n -> MainEvents] : n \in 0..MaxEvents}

InitMain ==
    /\ pc = "main_start"
    /\ cfg \in MainConfigs
    /\ now = 0
    /\ IdleMain /\ IdleFilter /\ IdleDuration /\ IdleReader /\ IdleParser
    /\ IdleUpdate

\* main.rs 15-18: the GET and the decode succeed.
MainFetch ==
    /\ pc = "main_start"
    /\ events' \in EventLists
    /\ pc' = "main_decoded"
    /\ UNCHANGED <<uvars, cfg, now, attachments, sent, fvars, dvars, rvars, pvars>>

\* main.rs 15-18: one of the unwraps panics.
MainFetchPanic ==
    /\ pc = "main_start"
    /\ pc' = "main_panicked"
    /\ UNCHANGED <<uvars, cfg, now, mvars, fvars, dvars, rvars, pvars>>

Surfaced(es, c, t) ==
    LET keep(e) == should_print_event(e, c, t) IN SelectSeq(es, keep)

\* main.rs 19-23: filter(should_print_event).map(to_slack).collect()
filter_map_all(es, c, t) ==
    [i \in 1..Len(es) |-> to_slack(es[i], c)]

filter_map_reversed(es, c, t) ==
    LET kept == Surfaced(es, c, t)
    IN  [i \in 1..Len(kept) |-> to_slack(kept[Len(kept) + 1 - i], c)]

filter_map(es, c, t) ==
    LET kept == Surfaced(es, c, t)
    IN  [i \in 1..Len(kept) |-> to_slack(kept[i], c)]

MainFilter ==
    /\ pc = "main_decoded"
    /\ attachments' = filter_map(events, cfg, now)
    /\ pc' = "main_filtered"
    /\ UNCHANGED <<uvars, cfg, now, events, sent, fvars, dvars, rvars, pvars>>

\* main.rs 24-28
MainEarlyExit ==
    /\ pc = "main_filtered"
    /\ attachments = <<>>
    /\ pc' = "main_exited"
    /\ UNCHANGED <<uvars, cfg, now, mvars, fvars, dvars, rvars, pvars>>

\* main.rs 31-42
Message(atts, c) ==
    [username |-> Some("Upcoming CTFs"),
     text |-> Some("[Upcoming CTFs](https://ctftime.org/event/list/upcoming)"),
     attachments |-> atts,
     icon_url |-> c.bot_icon]

\* main.rs 29-50: the POST; its error is logged and the run ends either way.
MainPost ==
    /\ pc = "main_filtered"
    /\ attachments # <<>>
    /\ sent' = Append(sent, Message(attachments, cfg))
    /\ pc' = "main_posted"
    /\ UNCHANGED <<uvars, cfg, now, events, attachments, fvars, dvars, rvars, pvars>>

NextMain ==
    \/ MainFetch
    \/ MainFetchPanic
    \/ MainFilter
    \/ MainEarlyExit
    \/ MainPost

SpecMain == InitMain /\ [][NextMain]_vars

-----------------------------------------------------------------------------
(* Properties of the filter (SpecFilter).                                  *)

FilterDone == pc = "filter_done"
TheEvent == Unwrap(ev)
SinceNow == TheEvent.start_date - now
AlwaysShown == TheEvent.ctf_id \in cfg.always_show_ctfs
Passed == verdict = Some(TRUE)
Rejected == verdict = Some(FALSE)

\* The whole days in a span of d seconds, partial days dropped toward zero:
\* the n of the same sign as d with |n| days <= |d| < |n| + 1 days.
WholeDays(d) ==
    CHOOSE n \in (-4 - MaxLookahead)..(4 + MaxLookahead) :
        IF d >= 0
        THEN n >= 0 /\ n * SecsPerDay <= d /\ d < (n + 1) * SecsPerDay
        ELSE n <= 0 /\ n * SecsPerDay >= d /\ d > (n - 1) * SecsPerDay

\* C1: an event whose ctf_id is in always_show_ctfs is printed, whatever its
\* restrictions, onsite flag and start time.
Thm_C1 == FilterDone /\ AlwaysShown => Passed

Wit_C1 ==
    /\ FilterDone /\ AlwaysShown /\ Passed
    /\ TheEvent.restrictions = "Invited"
    /\ TheEvent.onsite
    /\ WholeDays(SinceNow) > cfg.days_into_future

\* C2: an event not in always_show_ctfs whose restrictions is neither Open
\* nor Academic is never printed, whatever its onsite flag, start time and
\* the lookahead window.
Thm_C2 ==
    FilterDone /\ ~AlwaysShown /\ TheEvent.restrictions \notin {"Open", "Academic"}
        => Rejected

Wit_C2 ==
    /\ FilterDone /\ ~AlwaysShown /\ Rejected
    /\ TheEvent.restrictions = "HighSchool"
    /\ ~TheEvent.onsite
    /\ WholeDays(SinceNow) <= cfg.days_into_future

Boundary_C4 ==
    LET L == cfg.days_into_future
    IN  /\ (SinceNow = L * SecsPerDay => Passed)
        /\ (SinceNow > L * SecsPerDay /\ SinceNow < (L + 1) * SecsPerDay => Passed)
        /\ (SinceNow = (L + 1) * SecsPerDay => Rejected)

OnlineOpen ==
    FilterDone /\ ~AlwaysShown /\ TheEvent.restrictions = "Open" /\ ~TheEvent.onsite

\* C4 as stated: the days until start are truncated toward zero, and the
\* three boundary cases hold for every days_into_future.
Cex_C4 ==
    OnlineOpen =>
        /\ Passed <=> WholeDays(SinceNow) <= cfg.days_into_future
        /\ Boundary_C4

\* C4 as amended: the days until start are truncated toward zero, and the
\* three boundary cases hold when days_into_future is not negative.
Thm_C4 ==
    OnlineOpen =>
        /\ Passed <=> WholeDays(SinceNow) <= cfg.days_into_future
        /\ (cfg.days_into_future >= 0 => Boundary_C4)

Wit_C4 ==
    /\ OnlineOpen /\ Passed
    /\ cfg.days_into_future >= 0
    /\ SinceNow = cfg.days_into_future * SecsPerDay + (SecsPerDay - 1)

-----------------------------------------------------------------------------
(* Properties of format_duration (SpecDuration).                           *)

DurationDone == pc = "duration_done"
HasUnit(r, u) == \E i \in 1..Len(r) : r[i][2] = u

\* C6: a days component is pushed if and only if the whole hours exceed 48;
\* 49 hours has one, exactly 48 hours renders as "48 hours", zero as "".
Thm_C6 ==
    DurationDone =>
        /\ HasUnit(rendered, "days") <=> (dur >= 49 * SecsPerHour)
        /\ (dur = 49 * SecsPerHour => rendered = << <<2, "days">>, <<1, "hours">> >>)
        /\ (dur = 48 * SecsPerHour => rendered = << <<48, "hours">> >>)
        /\ (dur = 0 => rendered = <<>>)

Wit_C6 ==
    /\ DurationDone
    /\ dur = 48 * SecsPerHour + 59 * SecsPerMinute + 59
    /\ ~HasUnit(rendered, "days")

-----------------------------------------------------------------------------
(* Properties of main (SpecMain).                                          *)

MainEnded == pc \in {"main_exited", "main_posted", "main_panicked"}
SomeSurvivor ==
    \E i \in 1..Len(events) : should_print_event(events[i], cfg, now)

\* C5: a run in which no decoded event passes the filter ends without a
\* POST; a POST happens only when some event passed, at most once a run,
\* and never carries an empty attachment list.
Thm_C5 ==
    /\ Len(sent) <= 1
    /\ (sent # <<>> => SomeSurvivor)
    /\ (MainEnded /\ ~SomeSurvivor => sent = <<>>)
    /\ \A i \in 1..Len(sent) : sent[i].attachments # <<>>

Wit_C5 ==
    /\ pc = "main_exited"
    /\ Len(events) = MaxEvents
    /\ ~SomeSurvivor
    /\ sent = <<>>

-----------------------------------------------------------------------------
(* The fields of CtfEvent (lib.rs 54-94), in the order the feed lists them. *)

FieldOrder ==
    <<"title", "link", "guid", "start_date", "finish_date", "logo_url", "url",
      "format", "public_votable", "weight", "live_feed", "restrictions",
      "location", "onsite", "organizers", "ctf_id", "ctf_name">>
NumFields == Len(FieldOrder)
Fields == {FieldOrder[i] : i \in 1..NumFields}

\* The fields with #[builder(default="None")]; build() fails without the rest.
Optional == {"logo_url", "url", "live_feed", "location"}
Mandatory == Fields \ Optional

\* CtfEventBuilder::default(): no field set.
EmptyBuilder == [f \in Fields |-> None]

-----------------------------------------------------------------------------
(* The textual-to-typed conversions of parse_ctftime_feed.  A literal the  *)
(* tables below do not list does not parse.                                *)

Ok(v) == [ok |-> TRUE, val |-> v]
Err == [ok |-> FALSE, val |-> None]

\* str::parse::<isize>: an optional sign and decimal digits.
IsizeLits ==
    ("1" :> 1) @@ ("2" :> 2) @@ ("3" :> 3) @@ ("4" :> 4) @@ ("0" :> 0) @@ ("-1" :> -1)
ParseIsize(s) == IF s \in DOMAIN IsizeLits THEN Ok(IsizeLits[s]) ELSE Err

\* str::parse::<usize>: decimal digits, no minus sign.
ParseUsize(s) ==
    IF s \in DOMAIN IsizeLits /\ IsizeLits[s] >= 0
    THEN Ok(IsizeLits[s]) ELSE Err

\* str::parse::<f32>, the value in hundredths.
F32Lits == ("0.0" :> 0) @@ ("25.5" :> 2550)
ParseF32(s) == IF s \in DOMAIN F32Lits THEN Ok(F32Lits[s]) ELSE Err

\* DateTime::parse_from_str(data + "+0000", "%Y%m%dT%H%M%S%z"), in seconds
\* since the epoch.
DateLits == ("20170101T000000" :> 1483228800) @@ ("20170102T120000" :> 1483358400)
ParseDate(s) == IF s \in DOMAIN DateLits THEN Ok(DateLits[s]) ELSE Err

\* serde_json::from_str::<Vec<CtfTeam>>
TeamLits ==
    ("[]" :> <<>>) @@ ("[{\"id\": 7, \"name\": \"team\"}]" :> <<[id |-> 7, name |-> "team"]>>)
ParseTeams(s) == IF s \in DOMAIN TeamLits THEN Ok(TeamLits[s]) ELSE Err

\* impl FromStr for CtfRestrictions (lib.rs 194-206)
RestrictionsFromStr(s) ==
    CASE s = "Open" -> Ok("Open")
      [] s = "Prequalified" -> Ok("Prequalified")
      [] s = "High-school" -> Ok("HighSchool")
      [] s = "Academic" -> Ok("Academic")
      [] s = "Invited" -> Ok("Invited")
      [] OTHER -> Err

\* impl From<isize> for CtfFormat (lib.rs 228-237)
FormatFrom_shifted(value) ==
    CASE value = 0 -> "Jeopardy"
      [] value = 1 -> "AttackDefense"
      [] value = 2 -> "HackQuest"
      [] OTHER -> "Unknown"

FormatFrom(value) ==
    CASE value = 1 -> "Jeopardy"
      [] value = 2 -> "AttackDefense"
      [] value = 3 -> "HackQuest"
      [] OTHER -> "Unknown"

\* parse_bool (lib.rs 357-362)
parse_bool_anycase(value) ==
    CASE value \in {"false", "False", "FALSE"} -> FALSE
      [] OTHER -> TRUE

parse_bool(value) ==
    CASE value = "false" \/ value = "False" -> FALSE
      [] OTHER -> TRUE

\* The argument an end-tag arm hands to the builder's setter; not ok where
\* the arm's unwrap panics (lib.rs 278-332).
Convert(name, s) ==
    CASE name \in {"title", "link", "guid", "ctf_name"} -> Ok(s)
      [] name \in {"start_date", "finish_date"} -> ParseDate(s)
      [] name = "logo_url" -> Ok(Some(<<BASE_URL, s>>))
      [] name \in {"url", "live_feed", "location"} -> Ok(Some(s))
      [] name = "format" ->
            LET n == ParseIsize(s) IN IF n.ok THEN Ok(FormatFrom(n.val)) ELSE Err
      [] name \in {"public_votable", "onsite"} -> Ok(parse_bool(s))
      [] name = "weight" -> ParseF32(s)
      [] name = "restrictions" -> RestrictionsFromStr(s)
      [] name = "organizers" -> ParseTeams(s)
      [] name = "ctf_id" -> ParseUsize(s)

\* CtfEventBuilder::build() on a builder with every mandatory field set.
Build(b) ==
    [f \in Fields |-> IF b[f] = None THEN None ELSE Unwrap(b[f])]

\* The "item" end-tag arm (lib.rs 270-275): push the built event and reset
\* the builder; build().unwrap() panics when a mandatory field is unset.
on_end_item_lenient(b, res) ==
    [ok |-> TRUE, builder |-> EmptyBuilder, result |-> Append(res, Build(b))]

on_end_item_keep(b, res) ==
    IF \E f \in Mandatory : b[f] = None
    THEN [ok |-> FALSE, builder |-> b, result |-> res]
    ELSE [ok |-> TRUE, builder |-> b, result |-> Append(res, Build(b))]

on_end_item(b, res) ==
    IF \E f \in Mandatory : b[f] = None
    THEN [ok |-> FALSE, builder |-> b, result |-> res]
    ELSE [ok |-> TRUE, builder |-> EmptyBuilder, result |-> Append(res, Build(b))]

\* The Characters arm (lib.rs 338-342): the new value of data.
on_characters_anywhere(flag, old, d) == Some(d)

on_characters(flag, old, d) == IF flag THEN Some(d) ELSE old

on_end_field_or_default(name, b, d, res) ==
    IF name \in Fields
    THEN LET c == Convert(name, IF IsSome(d) THEN Unwrap(d) ELSE "")
         IN  [ok |-> c.ok,
              builder |-> IF c.ok THEN [b EXCEPT ![name] = Some(c.val)] ELSE b,
              result |-> res]
    ELSE [ok |-> TRUE, builder |-> b, result |-> res]

\* The other end-tag arms (lib.rs 278-333): a field's arm runs only when
\* data is Some; every other name falls to `_ => {}`.
on_end_field(name, b, d, res) ==
    IF name \in Fields /\ IsSome(d)
    THEN LET c == Convert(name, Unwrap(d))
         IN  [ok |-> c.ok,
              builder |-> IF c.ok THEN [b EXCEPT ![name] = Some(c.val)] ELSE b,
              result |-> res]
    ELSE [ok |-> TRUE, builder |-> b, result |-> res]

-----------------------------------------------------------------------------
(* The document behind the EventReader.  The reader returns the tokens of  *)
(* a well-nested document: a channel holding items, an item holding field  *)
(* elements in the feed's order, each field left out being an irregularity *)
(* of the document.  Each open element is on the stack with                *)
(* the text read in it so far.  An item's entry also collects, per field,  *)
(* the text of that field's element (raw), and whether the item is plain:  *)
(* nothing in it but field elements that hold at most one block of text.   *)

EmptyRaw == [f \in Fields |-> None]
Elem(name) ==
    [name |-> name, text |-> None, plain |-> TRUE, cursor |-> 0, raw |-> EmptyRaw]

Depth == Len(stack)
Top == stack[Depth]
Below == SubSeq(stack, 1, Depth - 1)
InChannel == Depth = 1
InItem == Depth = 2 /\ Top.name = "item"
InField == Depth = 3 /\ Top.name \in Fields
\* An item element is open.
ItemOpen == Depth >= 2 /\ stack[2].name = "item"

\* The literals tried per field: the first is the regular one, the others
\* each count as an irregularity of the document.
DefaultText(f) ==
    CASE f = "title" -> "A"
      [] f \in {"link", "guid"} -> "https://ctftime.org/event/1"
      [] f \in {"start_date", "finish_date"} -> "20170101T000000"
      [] f = "logo_url" -> "/logo.png"
      [] f \in {"url", "live_feed"} -> "https://example.org"
      [] f = "format" -> "1"
      [] f \in {"public_votable", "onsite"} -> "false"
      [] f = "weight" -> "0.0"
      [] f = "restrictions" -> "Open"
      [] f = "location" -> "Grenoble, France"
      [] f = "organizers" -> "[]"
      [] f = "ctf_id" -> "1"
      [] f = "ctf_name" -> "N"

OddTexts(f) ==
    CASE f = "title" -> {"B"}
      [] f = "finish_date" -> {"20170102T120000", "2017-01-02"}
      [] f = "format" -> {"2", "3", "4", "-1", "Jeopardy"}
      [] f \in {"public_votable", "onsite"} ->
            {"False", "FALSE", "true", "True", "no"}
      [] f = "weight" -> {"high"}
      [] f = "restrictions" -> {"Prequalified", "High-school", "Closed"}
      [] f = "organizers" -> {"[{\"id\": 7, \"name\": \"team\"}]", "none"}
      [] f = "ctf_id" -> {"2", "-1"}
      [] OTHER -> {}

Choice(a, c) == [arg |-> a, cost |-> c]

\* The elements that may open here.
StartChoices ==
    IF Depth = 0
    THEN IF tok.kind \in {"none", "Other"} THEN {Choice("channel", 0)} ELSE {}
    ELSE IF InChannel
    THEN {Choice("item", 0) : x \in {y \in {1} : Len(feed) < MaxItems}}
            \cup {Choice("title", 1), Choice("description", 1)}
    ELSE IF InItem
    THEN {Choice(FieldOrder[j], j - Top.cursor - 1) :
             j \in {Top.cursor + 1, Top.cursor + 2} \cap (1..NumFields)}
            \cup {Choice("description", 1)}
    ELSE IF InField
    THEN {Choice("description", 1)}
    ELSE {}

\* The character data that may come here.
TextChoices ==
    IF Depth = 0 \/ tok.kind = "Characters"
    THEN {}
    ELSE IF InField
    THEN {Choice(DefaultText(Top.name), 0)}
            \cup {Choice(t, 1) : t \in OddTexts(Top.name)}
    ELSE IF InChannel \/ InItem
    THEN {Choice("stray", 1)}
    ELSE {Choice("text", 0)}

Pay(cost) ==
    /\ quirks + cost <= MaxQuirks
    /\ quirks' = quirks + cost

Running == pc = "reading"

InitParse ==
    /\ pc = "reading"
    /\ stack = <<>> /\ tok = NoToken /\ quirks = 0 /\ feed = <<>>
    /\ in_item = FALSE
    /\ builder = EmptyBuilder
    /\ data = None
    /\ result = <<>>
    /\ IdleConfig /\ IdleFilter /\ IdleDuration /\ IdleMain
    /\ IdleUpdate

Return_continue ==
    /\ pc' = "reading"
    /\ UNCHANGED <<stack, quirks, in_item, builder, data>>

\* `break` and `result` (lib.rs 345, 348, 353): the function returns result;
\* the reader and the locals in_item, builder and data are dropped.
Return ==
    /\ pc' = "returned"
    /\ stack' = <<>> /\ quirks' = 0
    /\ in_item' = FALSE /\ builder' = None /\ data' = None

\* Ok(XmlEvent::StartElement { name, .. }) (lib.rs 263-267)
ReadStartElement ==
    /\ Running
    /\ \E c \in StartChoices :
        /\ Pay(c.cost)
        /\ tok' = [kind |-> "StartElement", arg |-> c.arg]
        /\ stack' =
            LET parent == IF Depth = 0 THEN <<>>
                          ELSE <<[Top EXCEPT
                                    !.cursor = IF InItem /\ c.arg \in Fields
                                               THEN CHOOSE j \in 1..NumFields :
                                                        FieldOrder[j] = c.arg
                                               ELSE @,
                                    !.plain = @ /\ c.arg # "description"]>>
            IN  (IF Depth = 0 THEN <<>> ELSE Below) \o parent \o <<Elem(c.arg)>>
        /\ in_item' = IF c.arg = "item" THEN TRUE ELSE in_item
    /\ UNCHANGED <<pc, feed, builder, data, result>>
    /\ UNCHANGED <<uvars, cfg, now, fvars, dvars, mvars>>

\* Ok(XmlEvent::Characters(d)) (lib.rs 338-342)
ReadCharacters ==
    /\ Running
    /\ \E c \in TextChoices :
        /\ Pay(c.cost)
        /\ tok' = [kind |-> "Characters", arg |-> c.arg]
        /\ stack' = Below \o
            <<[Top EXCEPT !.text = Some(c.arg),
                          !.plain = @ /\ Top.text = None /\ ~InItem]>>
        /\ data' = on_characters(in_item, data, c.arg)
    /\ UNCHANGED <<pc, feed, in_item, builder, result>>
    /\ UNCHANGED <<uvars, cfg, now, fvars, dvars, mvars>>

\* Ok(XmlEvent::EndElement { name }) (lib.rs 268-337).  The reader closes
\* the innermost open element; a field element closed with no content at
\* all is an irregularity of the document.  A panic of the arm leaves the
\* locals as they were when it unwound.
ReadEndElement ==
    /\ Running
    /\ Depth > 0
    /\ Pay(IF InField /\ Top.text = None /\ Top.plain THEN 1 ELSE 0)
    /\ LET name == Top.name
           r == IF name = "item"
                THEN on_end_item(builder, result)
                ELSE on_end_field(name, builder, data, result)
       IN  /\ tok' = [kind |-> "EndElement", arg |-> name]
           /\ stack' =
                IF InField
                THEN SubSeq(stack, 1, Depth - 2) \o
                     <<[stack[Depth - 1] EXCEPT
                          !.raw[name] = IF Top.plain THEN Top.text ELSE None,
                          !.plain = @ /\ Top.plain]>>
                ELSE Below
           /\ feed' = IF InItem
                      THEN Append(feed, [raw |-> Top.raw, regular |-> Top.plain])
                      ELSE feed
           /\ in_item' = IF name = "item" THEN FALSE ELSE in_item
           /\ builder' = r.builder
           /\ result' = r.result
           /\ data' = IF r.ok THEN None ELSE data
           /\ pc' = IF r.ok THEN "reading" ELSE "panicked"
    /\ UNCHANGED <<uvars, cfg, now, fvars, dvars, mvars>>

\* Err(e) (lib.rs 343-346): the error is printed and the loop left.  Of the
\* error e the model keeps whether its position is inside an item element.
ReadError ==
    /\ Running
    /\ tok' = [kind |-> "Err",
               arg |-> IF ItemOpen THEN "inside item" ELSE "outside item"]
    /\ Return
    /\ UNCHANGED <<feed, result>>
    /\ UNCHANGED <<uvars, cfg, now, fvars, dvars, mvars>>

\* Ok(XmlEvent::EndDocument) (lib.rs 347-349), after the root has closed.
ReadEndDocument ==
    /\ Running
    /\ Depth = 0 /\ tok.kind = "EndElement"
    /\ tok' = [kind |-> "EndDocument", arg |-> ""]
    /\ Return
    /\ UNCHANGED <<feed, result>>
    /\ UNCHANGED <<uvars, cfg, now, fvars, dvars, mvars>>

\* `_ => {}` (lib.rs 350): StartDocument first; whitespace, CDATA, comments
\* and processing instructions inside the root.  Inside a field element
\* they make its content more than one block of text.
ReadOther ==
    /\ Running
    /\ tok.kind # "Other"
    /\ \/ Depth = 0 /\ tok.kind = "none" /\ Pay(0)
       \/ Depth > 0 /\ Pay(1)
    /\ tok' = [kind |-> "Other", arg |-> ""]
    /\ stack' = IF InField \/ Depth = 4
                THEN Below \o <<[Top EXCEPT !.plain = FALSE]>>
                ELSE stack
    /\ UNCHANGED <<pc, feed, pvars>>
    /\ UNCHANGED <<uvars, cfg, now, fvars, dvars, mvars>>

Next ==
    \/ ReadStartElement
    \/ ReadCharacters
    \/ ReadEndElement
    \/ ReadError
    \/ ReadEndDocument
    \/ ReadOther

Spec == InitParse /\ [][Next]_vars

\* The loop of lib.rs 261 asks the reader for the next token in every
\* iteration, and the reader answers each call.
FairSpec == Spec /\ WF_vars(Next)

-----------------------------------------------------------------------------
(* Properties of parse_ctftime_feed (Spec).                                *)

Panicked == pc = "panicked"
EndTag(name) == [kind |-> "EndElement", arg |-> name]

\* The reader has just closed a field element of the open item.
JustClosed(f) == tok = EndTag(f) /\ Depth = 2 /\ Top.name = "item"
\* The text of that element: None for an empty element.
Literal(f) == Top.raw[f]
\* The open item holds nothing but field elements of at most one text each.
PlainSoFar == Top.plain

\* The reader has just closed an item, the last of feed.
JustClosedItem == tok = EndTag("item") /\ Depth = 1
ClosedItem == feed[Len(feed)]

\* The event an item's texts stand for: each field's text converted, an
\* absent optional field None.
Matches(e, raw) ==
    \A f \in Fields :
        IF raw[f] = None
        THEN f \in Optional /\ e[f] = None
        ELSE e[f] = Convert(f, Unwrap(raw[f])).val

\* C7: while decoding has not failed, result holds one event per item closed
\* so far, in document order, each with the values of its own item; so a
\* document of N complete items ended by EndDocument returns N events.
Thm_C7 ==
    ~Panicked /\ pc \in {"reading", "returned"} =>
        /\ Len(result) = Len(feed)
        /\ \A i \in 1..Len(feed) :
              feed[i].regular => Matches(result[i], feed[i].raw)

Wit_C7 ==
    /\ pc = "returned" /\ tok.kind = "EndDocument"
    /\ Len(feed) = 2 /\ Len(result) = 2
    /\ feed[1].regular /\ feed[2].regular
    /\ result[1].title = "A" /\ result[2].title = "B"

IntegerTexts == {"1", "2", "3", "4", "-1"}
FormatOfCode(s) ==
    CASE s = "1" -> "Jeopardy"
      [] s = "2" -> "AttackDefense"
      [] s = "3" -> "HackQuest"
      [] OTHER -> "Unknown"

\* C8 as stated: every format text decodes without error, "1", "2", "3" to
\* Jeopardy, AttackDefense, HackQuest and any other text to Unknown.
Cex_C8 ==
    JustClosed("format") /\ IsSome(Literal("format")) =>
        /\ ~Panicked
        /\ builder["format"] = Some(FormatOfCode(Unwrap(Literal("format"))))

\* C8 as amended: a format text that is an integer decodes without error,
\* 1, 2, 3 to Jeopardy, AttackDefense, HackQuest and any other integer to
\* Unknown; a text that is not an integer fails the decode.
Thm_C8 ==
    JustClosed("format") /\ IsSome(Literal("format")) =>
        IF Unwrap(Literal("format")) \in IntegerTexts
        THEN /\ ~Panicked
             /\ builder["format"] = Some(FormatOfCode(Unwrap(Literal("format"))))
        ELSE /\ Panicked
             /\ builder["format"] = None

Wit_C8 ==
    /\ JustClosed("format")
    /\ Literal("format") = Some("4")
    /\ builder["format"] = Some("Unknown")
    /\ ~Panicked

\* C9: at an item's end-tag, decoding fails and appends no event if and only
\* if a mandatory field is unset; unset optional fields decode as None.
Thm_C9 ==
    JustClosedItem =>
        /\ Panicked =>
              /\ \E f \in Mandatory : builder[f] = None
              /\ Len(result) = Len(feed) - 1
        /\ ~Panicked =>
              /\ Len(result) = Len(feed)
              /\ builder = EmptyBuilder
        /\ ClosedItem.regular =>
              /\ Panicked <=> \E f \in Mandatory : ClosedItem.raw[f] = None
              /\ ~Panicked =>
                    \A f \in Optional :
                        ClosedItem.raw[f] = None => result[Len(result)][f] = None

Wit_C9 ==
    /\ JustClosedItem /\ Panicked
    /\ ClosedItem.regular
    /\ Len(result) = 1
    /\ \A f \in Fields : ClosedItem.raw[f] = None <=> f = "weight"

BoolFields == {"public_votable", "onsite"}
FalseSpellings == {"false", "False", "FALSE"}

\* C10 as stated: every boolean text decodes without error, a spelling of
\* "false" in any case to false and any other text, the empty one included,
\* to true.
Cex_C10 ==
    \A f \in BoolFields :
        JustClosed(f) /\ PlainSoFar =>
            /\ ~Panicked
            /\ builder[f] =
                  Some(~(IsSome(Literal(f)) /\ Unwrap(Literal(f)) \in FalseSpellings))

\* C10 as amended: a boolean text decodes without error, "false" and "False"
\* to false and every other text, "FALSE" included, to true; an empty
\* element delivers no text and leaves the field unset.
Thm_C10 ==
    \A f \in BoolFields :
        JustClosed(f) /\ PlainSoFar =>
            /\ ~Panicked
            /\ builder[f] =
                  IF IsSome(Literal(f))
                  THEN Some(Unwrap(Literal(f)) \notin {"false", "False"})
                  ELSE None

Wit_C10 ==
    /\ JustClosed("onsite") /\ PlainSoFar
    /\ Literal("onsite") = Some("FALSE")
    /\ builder["onsite"] = Some(TRUE)
    /\ ~Panicked

-----------------------------------------------------------------------------
(* to_slack applied to one event: SpecSlack.                               *)

\* The default colors and one custom color each (lib.rs 45-46).
SlackConfigs ==
    [days_into_future : {MaxLookahead},
     always_show_ctfs : {{}},
     color_jeopardy : {"#0099e1", "#00aa00"},
     color_attack_defense : {"#da5422", "#aa0000"},
     bot_icon : {None}]

SlackEvents ==
    {Event(id, r, o, 0, f) :
        id \in CtfIds, r \in Restrictions, o \in BOOLEAN, f \in Formats}

InitSlack ==
    /\ pc = "slack_call"
    /\ cfg \in SlackConfigs
    /\ now = 0
    /\ ev \in {Some(e) : e \in SlackEvents}
    /\ verdict = None
    /\ IdleDuration /\ IdleMain /\ IdleReader /\ IdleParser
    /\ IdleUpdate

ToSlack ==
    /\ pc = "slack_call"
    /\ attachments' = <<to_slack(Unwrap(ev), cfg)>>
    /\ pc' = "slack_done"
    /\ UNCHANGED <<uvars, cfg, now, ev, verdict, events, sent, dvars, rvars, pvars>>

NextSlack == ToSlack

SpecSlack == InitSlack /\ [][NextSlack]_vars

SlackDone == pc = "slack_done"
TheAttachment == attachments[1]

-----------------------------------------------------------------------------
(* PostUpdate::from(Message): SpecUpdate.                                   *)
(* Option<Option<T>> is Some(Some(v)), Some(None) or None; a HashMap is a   *)
(* set of <<key, value>> pairs.                                             *)

MaxAttachments == 2

\* An Attachment is identified by its fallback text.
Attachments == {[fallback |-> "Hello Fallback"], [fallback |-> "Other"]}

AttachmentLists ==
    UNION {[1..n -> Attachments] : n \in 0..MaxAttachments}

PropsValues ==
    [card : {None, Some("card")},
     extras : {{}, {<<"key", "value">>}}]

\* The fields of Message that the conversion reads, and username as one of
\* the fields it drops.
Messages ==
    [text : {None, Some("Hello World"), Some("")},
     username : {None},
     attachments : AttachmentLists,
     props : {None} \cup {Some(p) : p \in PropsValues}]

PostPropsDefault == [card |-> None, attachments |-> <<>>, extras |-> {}]

PostUpdateFrom_attachments_only(m) ==
    LET message == IF IsSome(m.text) THEN Some(Some(Unwrap(m.text))) ELSE None
        props ==
            IF m.attachments # <<>>
            THEN LET pprops1 ==
                         [PostPropsDefault EXCEPT !.attachments = m.attachments]
                     pprops2 ==
                         IF IsSome(m.props)
                         THEN [pprops1 EXCEPT !.card = Unwrap(m.props).card,
                                              !.extras = Unwrap(m.props).extras]
                         ELSE pprops1
                 IN  Some(Some(pprops2))
            ELSE None
    IN  [message |-> message, props |-> props]

PostUpdateFrom(m) ==
    LET message == IF IsSome(m.text) THEN Some(Some(Unwrap(m.text))) ELSE None
        props ==
            IF m.attachments # <<>> \/ IsSome(m.props)
            THEN LET pprops1 ==
                         [PostPropsDefault EXCEPT !.attachments = m.attachments]
                     pprops2 ==
                         IF IsSome(m.props)
                         THEN [pprops1 EXCEPT !.card = Unwrap(m.props).card,
                                              !.extras = Unwrap(m.props).extras]
                         ELSE pprops1
                 IN  Some(Some(pprops2))
            ELSE None
    IN  [message |-> message, props |-> props]

InitUpdate ==
    /\ pc = "update_call"
    /\ msg \in {Some(m) : m \in Messages}
    /\ update = None
    /\ IdleConfig /\ IdleFilter /\ IdleDuration /\ IdleMain
    /\ IdleReader /\ IdleParser

ConvertMessage ==
    /\ pc = "update_call"
    /\ update' = Some(PostUpdateFrom(Unwrap(msg)))
    /\ pc' = "update_done"
    /\ UNCHANGED <<msg, cfg, now, fvars, dvars, mvars, rvars, pvars>>

NextUpdate == ConvertMessage

SpecUpdate == InitUpdate /\ [][NextUpdate]_vars

UpdateDone == pc = "update_done"
TheMessage == Unwrap(msg)
TheUpdate == Unwrap(update)
HasProps == TheMessage.attachments # <<>> \/ IsSome(TheMessage.props)

\* C12: PostUpdate::from(m) yields message = Some(Some(t)) when m.text is
\* Some(t) and None when m.text is absent; props = Some(Some(p)) exactly when
\* m.attachments is non-empty or m.props is present, with p.attachments equal
\* to m.attachments and p.card, p.extras those of m.props (empty when m.props
\* is absent), and props = None otherwise; neither field is ever Some(None).
Thm_C12 ==
    UpdateDone =>
        /\ IsSome(TheMessage.text)
              => TheUpdate.message = Some(Some(Unwrap(TheMessage.text)))
        /\ ~IsSome(TheMessage.text) => TheUpdate.message = None
        /\ HasProps <=>
              /\ Len(TheUpdate.props) = 1
              /\ Len(TheUpdate.props[1]) = 1
        /\ HasProps =>
              LET p == TheUpdate.props[1][1]
              IN  /\ p.attachments = TheMessage.attachments
                  /\ IF IsSome(TheMessage.props)
                     THEN /\ p.card = Unwrap(TheMessage.props).card
                          /\ p.extras = Unwrap(TheMessage.props).extras
                     ELSE /\ p.card = None
                          /\ p.extras = {}
        /\ ~HasProps => TheUpdate.props = None
        /\ TheUpdate.message # Some(None)
        /\ TheUpdate.props # Some(None)

Wit_C12 ==
    /\ UpdateDone
    /\ TheMessage.attachments = <<>>
    /\ TheMessage.text = None
    /\ IsSome(TheMessage.props)
    /\ TheUpdate.message = None
    /\ Len(TheUpdate.props) = 1
    /\ Len(TheUpdate.props[1]) = 1
    /\ TheUpdate.props[1][1].card = Some("card")
    /\ TheUpdate.props[1][1].attachments = <<>>

-----------------------------------------------------------------------------
(* Captured text and the end-tag it goes to.                                *)

\* The step reads a token of this kind.
Reads(kind) == Running /\ tok'.kind = kind
\* The step reads the end-tag of a field element inside an item and the
\* arm does not panic.
ClosesField == Reads("EndElement") /\ InField /\ in_item /\ pc' = "reading"

\* C13 as stated: at every field end-tag inside an item the field is set
\* from the last text block that came before the end-tag in the element.
Cex_C13 ==
    [][ClosesField /\ IsSome(Top.text) =>
          builder'[Top.name] = Some(Convert(Top.name, Unwrap(Top.text)).val)]_vars

\* C13: in_item is set on an item start-tag and cleared on an item end-tag
\* only; text is captured into data only while in_item is true and then is
\* the text of the Characters token just read; every end-tag drops the
\* captured text; and a field end-tag inside an item sets the field from the
\* captured text when one is pending, which is the last text block read
\* since the previous end-tag, and leaves the field alone when none is.
Thm_C13 ==
    /\ [](Running => (in_item <=> ItemOpen))
    /\ [][/\ in_item' # in_item /\ pc' = "reading" =>
                \/ tok' = [kind |-> "StartElement", arg |-> "item"] /\ in_item'
                \/ tok' = EndTag("item") /\ ~in_item'
          /\ Reads("Characters") =>
                data' = IF in_item THEN Some(tok'.arg) ELSE data
          /\ data' # data /\ data' # None =>
                Reads("Characters") /\ in_item
          /\ Reads("EndElement") /\ pc' = "reading" => data' = None
          /\ Reads("StartElement") \/ Reads("Other") => data' = data
          /\ ClosesField =>
                builder' =
                    IF IsSome(data)
                    THEN [builder EXCEPT
                            ![Top.name] = Some(Convert(Top.name, Unwrap(data)).val)]
                    ELSE builder]_vars

\* A format element holding "2" has just been closed and the field is set
\* from it.
Wit_C13 ==
    /\ Running
    /\ JustClosed("format")
    /\ Literal("format") = Some("2")
    /\ builder.format = Some("AttackDefense")

-----------------------------------------------------------------------------
(* The end of decoding.                                                     *)

Returned == pc = "returned"
Ending == {"Err", "EndDocument"}

\* C14: decoding stops at the first EndDocument token or stream error: the
\* step that reads it returns result as it is and no step follows it, nor
\* any step after a panic; after a stream error result holds exactly one
\* event per item whose end-tag was read before, each regular item's event
\* having the item's values; and every run of the loop comes to an end.
Thm_C14 ==
    /\ [](Running => tok.kind \notin Ending)
    /\ [][/\ Running
          /\ tok'.kind \in Ending => Returned' /\ result' = result]_vars
    /\ [](Returned /\ tok.kind = "Err" =>
            /\ Len(result) = Len(feed)
            /\ \A i \in 1..Len(feed) :
                  feed[i].regular => Matches(result[i], feed[i].raw))
    /\ <>(~Running)

\* The stream failed inside the second item: one event is returned.
Wit_C14 ==
    /\ Returned
    /\ tok = [kind |-> "Err", arg |-> "inside item"]
    /\ Len(feed) = 1
    /\ Len(result) = 1

-----------------------------------------------------------------------------
(* The attachments of the POST.                                             *)

Posted == pc = "main_posted"
\* The positions in events of the events that pass the filter.
SurfacedAt == {i \in 1..Len(events) : should_print_event(events[i], cfg, now)}
\* The position in events of the k-th event that passes the filter.
KthSurfaced(k) ==
    CHOOSE i \in SurfacedAt : Cardinality({j \in SurfacedAt : j <= i}) = k

\* C15: in a run that posts, the payload's attachments are one per event
\* that passes should_print_event and none for the others, the k-th
\* attachment being to_slack of the k-th such event in input order.
Thm_C15 ==
    Posted =>
        LET atts == sent[1].attachments
        IN  /\ Len(sent) = 1
            /\ Len(atts) = Cardinality(SurfacedAt)
            /\ \A k \in 1..Len(atts) :
                  atts[k] = to_slack(events[KthSurfaced(k)], cfg)

\* Two different events both pass and are posted in input order.
Wit_C15 ==
    /\ Posted
    /\ Len(events) = 2
    /\ SurfacedAt = {1, 2}
    /\ to_slack(events[1], cfg) # to_slack(events[2], cfg)
    /\ sent[1].attachments =
          <<to_slack(events[1], cfg), to_slack(events[2], cfg)>>

-----------------------------------------------------------------------------
(* Nothing pending outside an item.                                         *)

\* C16: while decoding, data is None whenever in_item is false; the builder
\* is empty whenever no item element is open, so right after each item
\* end-tag and through every channel-level element; and the builder and
\* data take a value only on a token read while in_item is true.  So no
\* field is set from text outside an item or left from a finalized item.
Thm_C16 ==
    /\ [](Running /\ ~in_item => data = None)
    /\ [](Running /\ ~ItemOpen => builder = EmptyBuilder)
    /\ [][/\ Running /\ pc' = "reading" /\ tok' = EndTag("item") =>
                ~in_item' /\ data' = None /\ builder' = EmptyBuilder
          /\ builder' # builder /\ pc' = "reading" => in_item
          /\ data' # data /\ data' # None => in_item]_vars

\* Text of a channel-level title is read after an item was finalized and is
\* not captured.
Wit_C16 ==
    /\ Running
    /\ tok = [kind |-> "Characters", arg |-> "text"]
    /\ Depth = 2 /\ Top.name = "title"
    /\ Len(result) = 1
    /\ ~in_item
    /\ data = None
    /\ builder = EmptyBuilder

-----------------------------------------------------------------------------
(* The components of a rendered duration.                                   *)

UnitOrder == <<"days", "hours", "minutes", "seconds">>
UnitRank(u) == CHOOSE k \in 1..Len(UnitOrder) : UnitOrder[k] = u
\* The number rendered with unit u, 0 when the unit is left out.
Component(r, u) ==
    IF HasUnit(r, u) THEN (CHOOSE c \in {r[i] : i \in 1..Len(r)} : c[2] = u)[1]
    ELSE 0

\* C17: for a duration of D >= 0 seconds the rendered components, a missing
\* one counting 0, add up to D; minutes and seconds are below 60; hours are
\* below 24 next to a days component and at most 48 without one; the
\* components come in the order days, hours, minutes, seconds, each at most
\* once, and none of them is 0.
Thm_C17 ==
    DurationDone /\ dur >= 0 =>
        LET days == Component(rendered, "days")
            hours == Component(rendered, "hours")
            minutes == Component(rendered, "minutes")
            seconds == Component(rendered, "seconds")
        IN  /\ days * 86400 + hours * 3600 + minutes * 60 + seconds = dur
            /\ minutes < 60
            /\ seconds < 60
            /\ IF HasUnit(rendered, "days") THEN hours < 24 ELSE hours <= 48
            /\ \A i, j \in 1..Len(rendered) :
                  i < j => UnitRank(rendered[i][2]) < UnitRank(rendered[j][2])
            /\ \A i \in 1..Len(rendered) : rendered[i][1] # 0

\* 49 hours, 1 minute and 59 seconds: all four components.
Wit_C17 ==
    /\ DurationDone
    /\ dur = 49 * 3600 + 60 + 59
    /\ rendered =
          << <<2, "days">>, <<1, "hours">>, <<1, "minutes">>, <<59, "seconds">> >>

=============================================================================
